---- MODULE Spec2Model ----
(***************************************************************************)
(* Model of the two-pass outfit pipeline of                               *)
(* backend/services/cloudflare_diffusion_service.py                       *)
(* (CloudflareDiffusionService.generate_outfit_on_person, its two passes,  *)
(* the normalizer arithmetic and Pillow's Image.composite).                *)
(*                                                                         *)
(* An image is its working size together with the values of one channel   *)
(* at a few sample pixels; the three channels of an RGB image are blended  *)
(* independently and identically, so one channel stands for all.           *)
(***************************************************************************)
EXTENDS Integers, Sequences, FiniteSets, TLC

VARIABLES
    pc,           \* stage of the run of generate_outfit_on_person
    input,        \* the caller's original_image_base64, as what decoding it gives
    new_w, new_h, \* working dimensions (lines 141-150)
    original,     \* img.resize((new_w, new_h)) (line 152)
    mask,         \* _create_clothing_mask(img_w, img_h) (line 248)
    sdResp,       \* response of the img2img endpoint (line 291), None before
    generated,    \* decoded (and resized) img2img output (lines 307-309)
    composite,    \* value returned by _pass1_sd_composite (line 156)
    idx,          \* position of the loop "for model_id in flux_models" (line 363)
    fluxLog,      \* the requests of Pass 2 so far, each with its response
    refined,      \* value returned by _pass2_flux_refine (line 162)
    result,       \* value returned to the caller (lines 169, 175), None before
    error,        \* the exception that left generate_outfit_on_person, None if none
    failedFrom,   \* stage in which that exception was raised
    compositeCalls, \* number of calls of Image.composite (line 312)
    requests,     \* the models requested by client.post so far (lines 291, 371)
    imgSize,        \* .size of original, mask and generated (lines 152, 248, 307)
    fin, fout,    \* argument and value of the normalizer or of the compositor
    cache,        \* CacheManager._cache: key -> [data, timestamp]
    clock,        \* datetime.now(), in minutes
    stored,       \* the data last given to cache_analysis, by (user, occasion, style)
    got,          \* the last call of get_cached_analysis and what it returned
    frames,       \* the locals of the concurrent runs of generate_outfit_on_person
    service,      \* the attributes of the CloudflareDiffusionService instance
    engine        \* the locals of a call of generate_recommendations

vars == <<pc, input, new_w, new_h, original, mask, sdResp, generated, composite,
          idx, fluxLog, refined, result, error, failedFrom, compositeCalls,
          requests, imgSize, fin, fout, cache, clock, stored, got, frames, service,
          engine>>

\* the state of the cache manager, and of the concurrent runs
cacheVars == <<cache, clock, stored, got>>
concVars == <<frames, service>>
engineVars == <<engine>>

\* everything that is not a local of the single run of the pipeline
notPipeline == <<fin, fout, cacheVars, concVars, engineVars>>

\* Python's None where an image is expected: no image has zero pixels
NoImage == <<>>

\* the size of a picture that does not exist
NoSize == <<0, 0>>

NoSizes == [original |-> NoSize, mask |-> NoSize, generated |-> NoSize]

\* generate_recommendations is not called
NoCall == [pc |-> ""]

NoEngine == engine = NoCall

\* no CacheManager is constructed
NoCache ==
    /\ cache = <<>>
    /\ clock = 0
    /\ stored = <<>>
    /\ got = <<>>

\* no concurrent runs are started
NoFrames ==
    /\ frames = <<>>
    /\ service = <<>>

----------------------------------------------------------------------------
(* Bounds of the model *)

\* number of sample pixels of an image
NumPixels == 2

\* number of small input widths and heights, and of large ones, the normalizer
\* is applied to
MaxDim == 24

\* stride of the channel values the compositor is applied to
ValStep == 15

----------------------------------------------------------------------------
(* Program constants *)

\* max_size = 512 (line 142)
max_size == 512

\* the minimum byte count of a binary response body (lines 303 and 397)
MinBytes == 1000

Pixels == 1..NumPixels

\* channel values of the sample pixels in the pipeline runs
PixVals == {40, 200}

Images == [Pixels -> PixVals]

\* pictures of one colour
Solid == {[p \in Pixels |-> v] : v \in PixVals}

\* values of the 'L' mask: 0 = keep the original, 255 = replace, between = blend
MaskVals == {0, 128, 255}

Masks == [Pixels -> MaskVals]

----------------------------------------------------------------------------
(* Image Normalizer: lines 141-150, and resize_for_model of the test script *)

\* resize_for_model without the truncation of lines 149-150
resize_for_model_unrounded(w, h) ==
    LET nw == IF w > h THEN max_size ELSE (w * max_size) \div h
        nh == IF w > h THEN (h * max_size) \div w ELSE max_size
    IN  <<nw, nh>>

\* new_w, new_h of lines 143-150; int(h * max_size / w) is the floor of the
\* quotient for the positive sizes of an image
resize_for_model(w, h) ==
    LET nw == IF w > h THEN max_size ELSE (w * max_size) \div h
        nh == IF w > h THEN (h * max_size) \div w ELSE max_size
    IN  <<(nw \div 8) * 8, (nh \div 8) * 8>>

\* Image.resize raises ValueError("height and width must be > 0") otherwise
ResizeDefined(size) == size[1] >= 1 /\ size[2] >= 1

----------------------------------------------------------------------------
(* Compositor: Image.composite(generated, original, mask), line 312 *)

\* DIV255 as a bare shift: a / 256, truncated
DIV255Shift(a) == a \div 256

\* Pillow's DIV255: the rounded quotient a / 255 for 0 <= a <= 255 * 255
DIV255(a) ==
    LET tmp == a + 128
    IN  ((tmp \div 256) + tmp) \div 256

\* Pillow's BLEND(mask, in1, in2) of paste_mask_L: in1 is the pixel pasted
\* onto, in2 the pixel pasted
BLEND(m, in1, in2) == DIV255(in1 * (255 - m) + in2 * m)

\* Image.composite with the two pictures exchanged
ImageCompositeSwapped(image1, image2, msk) ==
    [p \in DOMAIN image2 |-> BLEND(msk[p], image1[p], image2[p])]

\* Image.composite(image1, image2, mask): a copy of image2 with image1 pasted
\* through mask
ImageComposite(image1, image2, msk) ==
    [p \in DOMAIN image2 |-> BLEND(msk[p], image2[p], image1[p])]

----------------------------------------------------------------------------
(* The external endpoints: what client.post can give (lines 291 and 371) *)

\* byte counts of a response body around the threshold of lines 303 and 397
BodySizes == {MinBytes - 1, MinBytes, MinBytes + 1}

\* one shape for every response: timeout = httpx.TimeoutException was raised;
\* ct = the content-type header; success, image_field = what a JSON body holds;
\* size = len(response.content); decodable = Image.open accepts the bytes (or
\* the base64 of the JSON image field); img = the picture they decode to;
\* same_size = that picture has the working size
Response(timeout, status, ct, success, image_field, size, decodable, img, same_size) ==
    [timeout |-> timeout, status |-> status, ct |-> ct, success |-> success,
     image_field |-> image_field, size |-> size, decodable |-> decodable,
     img |-> img, same_size |-> same_size]

NoResponse ==
    Response(FALSE, 0, "", FALSE, FALSE, 0, FALSE, NoImage, FALSE)

TimeoutResponse ==
    Response(TRUE, 0, "", FALSE, FALSE, 0, FALSE, NoImage, FALSE)

\* a server error: a JSON error object, or (a gateway's page) a body that
\* happens to be bytes of a picture
ErrorResponses(imgs) ==
    {Response(FALSE, 500, "application/json", FALSE, FALSE, MinBytes - 1,
              FALSE, NoImage, FALSE)}
    \cup {Response(FALSE, 500, "image/png", FALSE, FALSE, MinBytes + 1,
                   TRUE, i, TRUE) : i \in imgs}

\* status 200 with a JSON body: an error object, a success object without an
\* image, one whose image does not decode, one whose image decodes
JsonResponses(imgs, sizes) ==
    {Response(FALSE, 200, "application/json", FALSE, FALSE, sz, FALSE, NoImage, FALSE) :
        sz \in sizes}
    \cup {Response(FALSE, 200, "application/json", TRUE, FALSE, MinBytes + 1,
                   FALSE, NoImage, FALSE) : i \in imgs}
    \cup {Response(FALSE, 200, "application/json", TRUE, TRUE, MinBytes + 1,
                   FALSE, NoImage, FALSE) : i \in imgs}
    \cup {Response(FALSE, 200, "application/json", TRUE, TRUE, MinBytes + 1,
                   TRUE, i, TRUE) : i \in imgs}

\* status 200 with a binary body: a picture of any byte count, of the working
\* size or not, or bytes that are no picture
BinaryResponses(imgs, sames) ==
    {Response(FALSE, 200, "image/png", FALSE, FALSE, sz, TRUE, i, same) :
        sz \in BodySizes, i \in imgs, same \in sames}
    \cup {Response(FALSE, 200, "image/png", FALSE, FALSE, MinBytes + 1,
                   FALSE, NoImage, FALSE)}

\* pictures a refinement endpoint paints: it repaints the whole frame
FluxImages == {[p \in Pixels |-> v] : v \in PixVals}

\* the picture of a server error's body
ErrorImages == {[p \in Pixels |-> 40]}

\* a body announced as JSON whose bytes Image.open would decode
MislabelledResponses(imgs) ==
    {Response(FALSE, 200, "application/json", FALSE, FALSE, MinBytes + 1,
              TRUE, i, TRUE) : i \in imgs}

SdResponses ==
    {TimeoutResponse} \cup ErrorResponses(ErrorImages)
    \cup JsonResponses({}, {MinBytes - 1, MinBytes + 1})
    \cup MislabelledResponses(ErrorImages)
    \cup BinaryResponses(Images, BOOLEAN)

FluxResponses ==
    {TimeoutResponse} \cup ErrorResponses(ErrorImages)
    \cup JsonResponses(FluxImages, {MinBytes + 1})
    \cup BinaryResponses(FluxImages, {TRUE})

----------------------------------------------------------------------------
(* Pass 1, lines 290-309: what _pass1_sd_composite does with the response *)

\* Pass1Accepts with the status check of lines 293-295 forgotten
Pass1AcceptsAnyStatus(r) ==
    /\ ~r.timeout
    /\ r.ct # "application/json"
    /\ ~(r.size < MinBytes)
    /\ r.decodable

\* Pass1Decodes with the content-type check of lines 297-301 forgotten
Pass1DecodesAnyType(r) ==
    /\ ~r.timeout
    /\ r.status = 200
    /\ ~(r.size < MinBytes)

\* TRUE when lines 293-305 hand the body to Image.open (line 307): no
\* timeout, status 200, a content type without "application/json", and at
\* least MinBytes bytes
Pass1Decodes(r) ==
    /\ ~r.timeout
    /\ r.status = 200
    /\ r.ct # "application/json"
    /\ ~(r.size < MinBytes)

\* TRUE when lines 293-307 reach the composite: the body is handed to
\* Image.open, and Image.open decodes it
Pass1Accepts(r) == Pass1Decodes(r) /\ r.decodable

----------------------------------------------------------------------------
(* Pass 2, lines 357-411 *)

\* flux_models without the fallback of line 360
flux_models_9b_only == <<"flux2-klein-9b">>

\* flux_models with the fallback tried first
flux_models_4b_first == <<"flux2-klein-4b", "flux2-klein-9b">>

\* flux_models of lines 358-361
flux_models == <<"flux2-klein-9b", "flux2-klein-4b">>

\* billions of parameters of the models of lines 30-31, as their names say
Capacity == [m \in {"flux2-klein-9b", "flux2-klein-4b"} |->
                IF m = "flux2-klein-9b" THEN 9 ELSE 4]

\* Pass2Accepts with the JSON branch of lines 383-394 forgotten
Pass2AcceptsBinaryOnly(r) ==
    /\ ~r.timeout
    /\ r.status = 200
    /\ r.ct # "application/json"
    /\ r.size > MinBytes
    /\ r.decodable

\* TRUE when the candidate's response makes the loop return an image
\* (lines 379-400): status 200 and either a JSON body with success and a
\* non-empty, decodable result.image, or a binary body of more than MinBytes
\* bytes that Image.open decodes
Pass2Accepts(r) ==
    /\ ~r.timeout
    /\ r.status = 200
    /\ IF r.ct = "application/json"
       THEN r.success /\ r.image_field /\ r.decodable
       ELSE r.size > MinBytes /\ r.decodable

\* base64 of the PNG of an image (lines 166-169, 172-175): PNG is lossless
PngBase64(image) == [format |-> "PNG", px |-> image]

\* what the caller gets by decoding the returned string
PngDecode(b64) == b64.px

NoResult == [format |-> "", px |-> NoImage]

----------------------------------------------------------------------------
(* Mask generator, line 248.  The regions are filled with 255 on a zero     *)
(* ground and blurred, so a pixel of the mask is 0, 255 or a value between. *)

create_clothing_mask(img_w, img_h) == Masks

----------------------------------------------------------------------------
(* The run of generate_outfit_on_person, lines 131-179 *)

\* Image.new('L', (img_w, img_h), 0), line 185; the blur keeps the size
mask_size(img_w, img_h) == <<img_w, img_h>>

\* sizes of the picture in the body of an accepted response: the working
\* size, or the endpoint's own
ResponseSizes(r, img_w, img_h) ==
    IF r.same_size
    THEN {<<img_w, img_h>>}
    ELSE {<<512, 512>>, <<512, 768>>} \ {<<img_w, img_h>>}

\* the generated picture composited as the endpoint sent it
size_not_resized(raw, img_w, img_h) == raw

\* lines 308-309: the size of generated at line 312
size_for_composite(raw, img_w, img_h) ==
    IF raw # <<img_w, img_h>> THEN <<img_w, img_h>> ELSE raw

\* sizes of the decoded input photo (w, h of line 141)
InputSizes ==
    {<<256, 384>>, <<1024, 768>>, <<300, 300>>, <<1, 64>>, <<1, 65>>, <<640, 9>>}

\* the caller's string: base64 of a picture of some size, or not
Inputs ==
    {[decodable |-> FALSE, w |-> 0, h |-> 0]}
    \cup {[decodable |-> TRUE, w |-> s[1], h |-> s[2]] : s \in InputSizes}

Init ==
    /\ pc = "NORMALIZING"
    /\ input \in Inputs
    /\ new_w = 0
    /\ new_h = 0
    /\ original = NoImage
    /\ mask = NoImage
    /\ sdResp = NoResponse
    /\ generated = NoImage
    /\ composite = NoImage
    /\ idx = 0
    /\ fluxLog = <<>>
    /\ refined = NoImage
    /\ result = NoResult
    /\ error = ""
    /\ failedFrom = ""
    /\ compositeCalls = 0
    /\ requests = <<>>
    /\ imgSize = NoSizes
    /\ fin = <<>>
    /\ fout = <<>>
    /\ NoCache
    /\ NoFrames
    /\ NoEngine

\* the exception leaves generate_outfit_on_person through lines 177-179
Raise(exc) ==
    /\ pc' = "FAILED"
    /\ error' = exc
    /\ failedFrom' = pc

\* lines 136-152: decode, compute the working size, resize
Normalize ==
    /\ pc = "NORMALIZING"
    /\ IF ~input.decodable
       THEN /\ Raise("ImageDecodeError")
            /\ UNCHANGED <<new_w, new_h, original>>
       ELSE LET size == resize_for_model(input.w, input.h)
            IN  /\ new_w' = size[1]
                /\ new_h' = size[2]
                /\ IF ResizeDefined(size)
                   THEN /\ original' \in Images
                        /\ pc' = "MASKING"
                        /\ UNCHANGED <<error, failedFrom>>
                   ELSE /\ Raise("ValueError")
                        /\ UNCHANGED original
    /\ imgSize' = IF input.decodable
                   /\ ResizeDefined(resize_for_model(input.w, input.h))
                THEN [imgSize EXCEPT !.original = resize_for_model(input.w, input.h)]
                ELSE imgSize
    /\ UNCHANGED <<input, mask, sdResp, generated, composite, idx, fluxLog,
                   refined, result, compositeCalls, requests, notPipeline>>

\* line 248, the first statement of _pass1_sd_composite
CreateMask ==
    /\ pc = "MASKING"
    /\ mask' \in create_clothing_mask(new_w, new_h)
    /\ imgSize' = [imgSize EXCEPT !.mask = mask_size(new_w, new_h)]
    /\ pc' = "SYNTHESIZING"
    /\ UNCHANGED <<input, new_w, new_h, original, sdResp, generated, composite,
                   idx, fluxLog, refined, result, error, failedFrom,
                   compositeCalls, requests, notPipeline>>

\* a resize that may give any picture
ResizedToAnyPicture(img) == Images

\* generated.resize((img_w, img_h), Image.LANCZOS), line 309: the filter's
\* weights are normalized to sum 1, so a picture of one colour keeps it; of
\* another picture the sample pixels may get any values
Resized(img) == IF img \in Solid THEN {img} ELSE Images

\* Synthesize with the request sent again after a timeout
SynthesizeRetriesTimeout ==
    /\ pc = "SYNTHESIZING"
    /\ \E r \in SdResponses :
        /\ sdResp' = r
        /\ requests' = Append(requests, "img2img")
        /\ IF Pass1Accepts(r)
           THEN /\ IF r.same_size
                   THEN generated' = r.img
                   ELSE generated' \in Resized(r.img)
                /\ \E raw \in ResponseSizes(r, new_w, new_h) :
                      imgSize' = [imgSize EXCEPT
                                  !.generated = size_for_composite(raw, new_w, new_h)]
                /\ pc' = "COMPOSITING"
                /\ UNCHANGED <<error, failedFrom>>
           ELSE IF r.timeout
           THEN UNCHANGED <<pc, generated, error, failedFrom, imgSize>>
           ELSE /\ Raise("Pass 1 (SD img2img) failed")
                /\ UNCHANGED <<generated, imgSize>>
    /\ UNCHANGED <<input, new_w, new_h, original, mask, composite, idx, fluxLog,
                   refined, result, compositeCalls, notPipeline>>

\* lines 250-309: the request to the img2img endpoint and the checks of its
\* response; a rejected response makes _pass1_sd_composite return None, and
\* line 159 raises
Synthesize ==
    /\ pc = "SYNTHESIZING"
    /\ \E r \in SdResponses :
        /\ sdResp' = r
        /\ requests' = Append(requests, "img2img")
        /\ IF Pass1Accepts(r)
           THEN /\ IF r.same_size
                   THEN generated' = r.img
                   ELSE generated' \in Resized(r.img)
                /\ \E raw \in ResponseSizes(r, new_w, new_h) :
                      imgSize' = [imgSize EXCEPT
                                  !.generated = size_for_composite(raw, new_w, new_h)]
                /\ pc' = "COMPOSITING"
                /\ UNCHANGED <<error, failedFrom>>
           ELSE /\ Raise("Pass 1 (SD img2img) failed")
                /\ UNCHANGED <<generated, imgSize>>
    /\ UNCHANGED <<input, new_w, new_h, original, mask, composite, idx, fluxLog,
                   refined, result, compositeCalls, notPipeline>>

\* lines 311-314 and 156-162: the composite, returned to the caller of Pass 1;
\* the response and the generated picture are locals of _pass1_sd_composite and
\* end with it
Composite ==
    /\ pc = "COMPOSITING"
    /\ composite' = ImageComposite(generated, original, mask)
    /\ compositeCalls' = compositeCalls + 1
    /\ sdResp' = NoResponse
    /\ generated' = NoImage
    /\ imgSize' = [imgSize EXCEPT !.generated = NoSize]
    /\ idx' = 1
    /\ pc' = "REFINING"
    /\ UNCHANGED <<input, new_w, new_h, original, mask, fluxLog, refined,
                   result, error, failedFrom, requests, notPipeline>>

\* Returned with the test of line 164 inverted
ReturnedInverted(refinedImage, compositeImage) ==
    IF refinedImage = NoImage
    THEN PngBase64(refinedImage)
    ELSE PngBase64(compositeImage)

\* Returned with the fallback branch of lines 170-175 forgotten
ReturnedNoFallback(refinedImage, compositeImage) ==
    PngBase64(refinedImage)

\* the value generate_outfit_on_person returns, lines 164-175
Returned(refinedImage, compositeImage) ==
    IF refinedImage # NoImage
    THEN PngBase64(refinedImage)
    ELSE PngBase64(compositeImage)

\* RefineTry with a timeout handled as in Pass 1: it ends the run
RefineTryTimeoutRaises ==
    /\ pc = "REFINING"
    /\ idx <= Len(flux_models)
    /\ \E r \in FluxResponses :
        /\ fluxLog' = Append(fluxLog, [model |-> flux_models[idx], resp |-> r])
        /\ requests' = Append(requests, flux_models[idx])
        /\ IF Pass2Accepts(r)
           THEN /\ refined' = r.img
                /\ result' = Returned(r.img, composite)
                /\ pc' = "DONE"
                /\ UNCHANGED <<idx, error, failedFrom>>
           ELSE IF r.timeout
           THEN /\ Raise("Pass 2 (FLUX) timeout")
                /\ UNCHANGED <<idx, refined, result>>
           ELSE /\ idx' = idx + 1
                /\ UNCHANGED <<refined, result, pc, error, failedFrom>>
    /\ UNCHANGED <<input, new_w, new_h, original, mask, sdResp, generated,
                   composite, compositeCalls, imgSize, notPipeline>>

\* RefineTry with the remaining candidates requested at once, racing
RefineTryRacing ==
    /\ pc = "REFINING"
    /\ idx <= Len(flux_models)
    /\ \E r \in FluxResponses :
        /\ fluxLog' = Append(fluxLog, [model |-> flux_models[idx], resp |-> r])
        /\ requests' = requests \o SubSeq(flux_models, idx, Len(flux_models))
        /\ IF Pass2Accepts(r)
           THEN /\ refined' = r.img
                /\ result' = Returned(r.img, composite)
                /\ pc' = "DONE"
                /\ UNCHANGED idx
           ELSE /\ idx' = Len(flux_models) + 1
                /\ UNCHANGED <<refined, result, pc>>
    /\ UNCHANGED <<input, new_w, new_h, original, mask, sdResp, generated,
                   composite, error, failedFrom, compositeCalls, imgSize,
                   notPipeline>>

\* one turn of the loop of line 363: the request to flux_models[idx]; an
\* accepted response ends Pass 2 and the run (lines 392/400, 164-169), any
\* other one continues with the next candidate
RefineTry ==
    /\ pc = "REFINING"
    /\ idx <= Len(flux_models)
    /\ \E r \in FluxResponses :
        /\ fluxLog' = Append(fluxLog, [model |-> flux_models[idx], resp |-> r])
        /\ requests' = Append(requests, flux_models[idx])
        /\ IF Pass2Accepts(r)
           THEN /\ refined' = r.img
                /\ result' = Returned(r.img, composite)
                /\ pc' = "DONE"
                /\ UNCHANGED idx
           ELSE /\ idx' = idx + 1
                /\ UNCHANGED <<refined, result, pc>>
    /\ UNCHANGED <<input, new_w, new_h, original, mask, sdResp, generated,
                   composite, error, failedFrom, compositeCalls, imgSize,
                   notPipeline>>

\* RefineExhausted with "no refinement" treated like "no composite" (line 159)
RefineExhaustedRaises ==
    /\ pc = "REFINING"
    /\ idx > Len(flux_models)
    /\ Raise("Pass 2 (FLUX) failed")
    /\ UNCHANGED <<input, new_w, new_h, original, mask, sdResp, generated,
                   composite, idx, fluxLog, refined, result, compositeCalls,
                   requests, imgSize, notPipeline>>

\* lines 410-411 and 170-175: every candidate failed, the composite is returned
RefineExhausted ==
    /\ pc = "REFINING"
    /\ idx > Len(flux_models)
    /\ refined' = NoImage
    /\ result' = Returned(NoImage, composite)
    /\ pc' = "DONE"
    /\ UNCHANGED <<input, new_w, new_h, original, mask, sdResp, generated,
                   composite, idx, fluxLog, error, failedFrom, compositeCalls,
                   requests, imgSize, notPipeline>>

Next ==
    \/ Normalize
    \/ CreateMask
    \/ Synthesize
    \/ Composite
    \/ RefineTry
    \/ RefineExhausted

Spec == Init /\ [][Next]_vars

\* the event loop resumes a coroutine whose awaited call has returned or
\* timed out (timeout=120.0, timeout=180.0)
FairSpec == Spec /\ WF_vars(Next)

----------------------------------------------------------------------------
(* The normalizer and the compositor as functions of their arguments: the   *)
(* run of the pipeline does not start (pc = "") and fin, fout hold the      *)
(* argument and the value.                                                  *)

NoRun ==
    /\ pc = ""
    /\ input = [decodable |-> FALSE, w |-> 0, h |-> 0]
    /\ new_w = 0
    /\ new_h = 0
    /\ original = NoImage
    /\ mask = NoImage
    /\ sdResp = NoResponse
    /\ generated = NoImage
    /\ composite = NoImage
    /\ idx = 0
    /\ fluxLog = <<>>
    /\ refined = NoImage
    /\ result = NoResult
    /\ error = ""
    /\ failedFrom = ""
    /\ compositeCalls = 0
    /\ requests = <<>>
    /\ imgSize = NoSizes

NoRunUnchanged ==
    UNCHANGED <<pc, input, new_w, new_h, original, mask, sdResp, generated,
                composite, idx, fluxLog, refined, result, error, failedFrom,
                compositeCalls, requests, imgSize>>

\* widths and heights of input photos: the small ones, and large ones on a
\* stride that is no multiple of 8
Dims == (1..MaxDim) \cup {97 * d : d \in 1..MaxDim}

NormInit ==
    /\ NoRun
    /\ fin \in Dims \X Dims
    /\ fout = <<>>
    /\ NoCache
    /\ NoFrames
    /\ NoEngine

\* lines 141-150 applied to w, h = fin
NormStep ==
    /\ fout = <<>>
    /\ fout' = resize_for_model(fin[1], fin[2])
    /\ UNCHANGED <<fin, cacheVars, concVars, engineVars>>
    /\ NoRunUnchanged

NormNext == NormStep

NormSpec == NormInit /\ [][NormNext]_vars

\* channel values 0..255 on a stride, with both ends
CompVals == {v \in 0..255 : v % ValStep = 0} \cup {255}

\* fin = <<original, generated, mask>> at one pixel of one channel
CompInit ==
    /\ NoRun
    /\ fin \in CompVals \X CompVals \X (0..255)
    /\ fout = <<>>
    /\ NoCache
    /\ NoFrames
    /\ NoEngine

\* line 312 on one-pixel pictures
CompStep ==
    /\ fout = <<>>
    /\ fout' = ImageComposite(<<fin[2]>>, <<fin[1]>>, <<fin[3]>>)
    /\ UNCHANGED <<fin, cacheVars, concVars, engineVars>>
    /\ NoRunUnchanged

CompNext == CompStep

CompSpec == CompInit /\ [][CompNext]_vars

----------------------------------------------------------------------------
(* CacheManager, utils/cache_manager.py.  A string is the sequence of its   *)
(* characters; the clock counts minutes.                                    *)

\* minutes between two readings of the clock
TickStep == 30

\* the last reading of the clock
MaxTime == 90

\* ttl_minutes = 60 (line 12)
ttl_minutes == 60

\* user ids, occasions and styles the callers pass
Triples ==
    {<< <<"a">>, <<"c">>, <<"d">> >>,
     << <<"a">>, <<"b", ":", "c">>, <<"d">> >>,
     << <<"a", ":", "b">>, <<"c">>, <<"d">> >>,
     << <<"b">>, <<"c">>, <<"d">> >>}

Users == {t[1] : t \in Triples}

\* the analyses cached
Data == {"X", "Y"}

\* hashlib.md5(x.encode()).hexdigest() of the strings hashed here, as
\* <<the first 8 characters, the other 24>>
md5_hexdigest(x) ==
    CASE x = <<"a">> -> <<"0cc175b9", "c0f1b6a831c399e269772661">>
      [] x = <<"a", ":", "b">> -> <<"d8160c9b", "3dc20d4e931aeb4f45262155">>
      [] x = <<"b">> -> <<"92eb5ffe", "e6ae2fec3ad71c777531578f">>
      [] x = <<"a", ":", "c", ":", "d">> ->
            <<"4279c952", "02d1c59a04dfe6377f4deebf">>
      [] x = <<"a", ":", "b", ":", "c", ":", "d">> ->
            <<"e6ea19c6", "2a3763c7b78c475652c51357">>
      [] x = <<"b", ":", "c", ":", "d">> ->
            <<"24aaf05a", "3b013d2e43502c5fe787750c">>

\* digest[:8], and key.startswith(prefix) for a prefix of 8 characters
Head8(digest) == digest[1]
startswith(key, prefix) == Head8(key) = prefix

\* _generate_key, lines 18-19: md5 of f"{user_id}:{occasion}:{style}"
generate_key(user_id, occasion, style) ==
    md5_hexdigest(user_id \o <<":">> \o occasion \o <<":">> \o style)

\* datetime.isoformat and datetime.fromisoformat (lines 64, 36): the string
\* holds the date and time to the microsecond
isoformat(t) == [iso |-> t]
fromisoformat(str) == str.iso

\* the record of a call: its name, arguments and returned value
Call(op, user_id, occasion, style, ret) ==
    [op |-> op, user_id |-> user_id, occasion |-> occasion, style |-> style,
     ret |-> ret]

CacheInit ==
    /\ NoRun
    /\ NoFrames
    /\ NoEngine
    /\ fin = <<>>
    /\ fout = <<>>
    /\ cache = <<>>
    /\ clock = 0
    /\ stored = <<>>
    /\ got = Call("__init__", <<>>, <<>>, <<>>, "None")

CacheUnchanged ==
    /\ NoRunUnchanged
    /\ UNCHANGED <<fin, fout, concVars, engineVars>>

\* cache_analysis, lines 60-68
cache_analysis(user_id, occasion, style, data) ==
    LET cache_key == generate_key(user_id, occasion, style)
        entry == [data |-> data, timestamp |-> isoformat(clock)]
    IN  /\ cache' = [k \in DOMAIN cache \cup {cache_key} |->
                        IF k = cache_key THEN entry ELSE cache[k]]
        /\ stored' = [t \in DOMAIN stored \cup {<<user_id, occasion, style>>} |->
                        IF t = <<user_id, occasion, style>> THEN data ELSE stored[t]]
        /\ got' = Call("cache_analysis", user_id, occasion, style, "True")
        /\ UNCHANGED clock
        /\ CacheUnchanged

\* TRUE when line 39 finds the entry expired
Expired(entry) == clock - fromisoformat(entry.timestamp) > ttl_minutes

\* get_cached_analysis, lines 29-45
get_cached_analysis(user_id, occasion, style) ==
    LET cache_key == generate_key(user_id, occasion, style)
    IN  /\ IF cache_key \notin DOMAIN cache
           THEN /\ got' = Call("get_cached_analysis", user_id, occasion, style, "None")
                /\ UNCHANGED cache
           ELSE IF Expired(cache[cache_key])
           THEN /\ cache' = [k \in DOMAIN cache \ {cache_key} |-> cache[k]]
                /\ got' = Call("get_cached_analysis", user_id, occasion, style, "None")
           ELSE /\ got' = Call("get_cached_analysis", user_id, occasion, style,
                               cache[cache_key].data)
                /\ UNCHANGED cache
        /\ UNCHANGED <<clock, stored>>
        /\ CacheUnchanged

\* clear_user_cache, lines 77-86
clear_user_cache(user_id) ==
    LET keys_to_delete ==
            {key \in DOMAIN cache :
                startswith(key, Head8(md5_hexdigest(user_id)))}
    IN  /\ cache' = [k \in DOMAIN cache \ keys_to_delete |-> cache[k]]
        /\ got' = Call("clear_user_cache", user_id, <<>>, <<>>, "True")
        /\ UNCHANGED <<clock, stored>>
        /\ CacheUnchanged

\* clear_all, lines 95-97
clear_all ==
    /\ cache' = <<>>
    /\ got' = Call("clear_all", <<>>, <<>>, <<>>, "True")
    /\ UNCHANGED <<clock, stored>>
    /\ CacheUnchanged

\* time passes between two calls
Tick ==
    /\ clock + TickStep <= MaxTime
    /\ clock' = clock + TickStep
    /\ UNCHANGED <<cache, stored, got>>
    /\ CacheUnchanged

CacheNext ==
    \/ \E t \in Triples, d \in Data : cache_analysis(t[1], t[2], t[3], d)
    \/ \E t \in Triples : get_cached_analysis(t[1], t[2], t[3])
    \/ \E u \in Users : clear_user_cache(u)
    \/ clear_all
    \/ Tick

CacheSpec == CacheInit /\ [][CacheNext]_vars

----------------------------------------------------------------------------
(* Two runs of generate_outfit_on_person on one service instance, as       *)
(* coroutines of one event loop.  A run's locals live in the frame of its   *)
(* coroutine; the instance holds what __init__ (lines 21-32) stored.        *)

Runs == {1, 2}

\* the attributes of the instance after __init__
ServiceConfig ==
    [account_id |-> "account_id",
     api_token |-> "api_token",
     models |-> [m \in {"img2img", "flux2-klein-9b", "flux2-klein-4b"} |->
                    CASE m = "img2img" -> "@cf/runwayml/stable-diffusion-v1-5-img2img"
                      [] m = "flux2-klein-9b" -> "@cf/black-forest-labs/flux-2-klein-9b"
                      [] m = "flux2-klein-4b" -> "@cf/black-forest-labs/flux-2-klein-4b"]]

\* one slot of locals for all runs, as attributes of the instance would be
FrameShared(r) == 1

\* the frame that holds the locals of run r: its own
Frame(r) == r

\* the mask of the runs: it preserves the first pixel and replaces the others
ConcMask == [p \in Pixels |-> IF p = 1 THEN 0 ELSE 255]

\* what the endpoints answer to a run: a timeout or a picture in Pass 1, a
\* server error or a picture in Pass 2
ConcSdResponses ==
    {TimeoutResponse}
    \cup {Response(FALSE, 200, "image/png", FALSE, FALSE, MinBytes + 1, TRUE, i, TRUE) :
            i \in Solid}

ConcFluxResponses ==
    {Response(FALSE, 500, "application/json", FALSE, FALSE, MinBytes - 1,
              FALSE, NoImage, FALSE),
     Response(FALSE, 200, "image/png", FALSE, FALSE, MinBytes + 1, TRUE,
              [p \in Pixels |-> 200], TRUE)}

\* the photo of a run and the answers to its requests
RunArgs ==
    [original : Solid,
     sd : ConcSdResponses,
     flux : [1..Len(flux_models) -> ConcFluxResponses]]

NoLocals ==
    [original |-> NoImage, mask |-> NoImage, generated |-> NoImage,
     composite |-> NoImage, idx |-> 0]

\* what a run gave its caller: the exception, or the image with its origin
Outcome(kind, image) == [kind |-> kind, image |-> image]

ConcInit ==
    /\ NoRun
    /\ NoCache
    /\ fin = <<>>
    /\ fout = <<>>
    /\ NoEngine
    /\ service = ServiceConfig
    /\ \E a \in [Runs -> RunArgs] :
          frames = [r \in Runs |->
                      [pc |-> "NORMALIZING", args |-> a[r], locals |-> NoLocals,
                       outcome |-> Outcome("", NoImage)]]

ConcUnchanged ==
    /\ NoRunUnchanged
    /\ UNCHANGED <<fin, fout, cacheVars, service, engineVars>>

\* lines 136-152
RunNormalize(r) ==
    /\ frames[r].pc = "NORMALIZING"
    /\ frames' = [frames EXCEPT ![Frame(r)].locals.original = frames[r].args.original,
                                ![r].pc = "MASKING"]
    /\ ConcUnchanged

\* line 248
RunCreateMask(r) ==
    /\ frames[r].pc = "MASKING"
    /\ frames' = [frames EXCEPT ![Frame(r)].locals.mask = ConcMask,
                                ![r].pc = "SYNTHESIZING"]
    /\ ConcUnchanged

\* lines 250-309 and 158-159
RunSynthesize(r) ==
    /\ frames[r].pc = "SYNTHESIZING"
    /\ service.models["img2img"] # ""
    /\ LET resp == frames[r].args.sd
       IN  IF Pass1Accepts(resp)
           THEN frames' = [frames EXCEPT ![Frame(r)].locals.generated = resp.img,
                                         ![r].pc = "COMPOSITING"]
           ELSE frames' = [frames EXCEPT ![r].pc = "FAILED",
                                         ![r].outcome = Outcome("failure", NoImage)]
    /\ ConcUnchanged

\* lines 311-314
RunComposite(r) ==
    /\ frames[r].pc = "COMPOSITING"
    /\ LET l == frames[Frame(r)].locals
       IN  frames' = [frames EXCEPT
                        ![Frame(r)].locals.composite =
                            ImageComposite(l.generated, l.original, l.mask),
                        ![Frame(r)].locals.idx = 1,
                        ![r].pc = "REFINING"]
    /\ ConcUnchanged

\* one turn of the loop of line 363, and lines 164-169
RunRefineTry(r) ==
    /\ frames[r].pc = "REFINING"
    /\ frames[Frame(r)].locals.idx \in 1..Len(flux_models)
    /\ service.models[flux_models[frames[Frame(r)].locals.idx]] # ""
    /\ LET i == frames[Frame(r)].locals.idx
           resp == frames[r].args.flux[i]
       IN  IF Pass2Accepts(resp)
           THEN frames' = [frames EXCEPT ![r].pc = "DONE",
                                         ![r].outcome = Outcome("refined", resp.img)]
           ELSE frames' = [frames EXCEPT ![Frame(r)].locals.idx = i + 1]
    /\ ConcUnchanged

\* lines 410-411 and 170-175
RunRefineExhausted(r) ==
    /\ frames[r].pc = "REFINING"
    /\ frames[Frame(r)].locals.idx > Len(flux_models)
    /\ frames' = [frames EXCEPT
                    ![r].pc = "DONE",
                    ![r].outcome = Outcome("composite", frames[Frame(r)].locals.composite)]
    /\ ConcUnchanged

ConcNext ==
    \E r \in Runs :
        \/ RunNormalize(r)
        \/ RunCreateMask(r)
        \/ RunSynthesize(r)
        \/ RunComposite(r)
        \/ RunRefineTry(r)
        \/ RunRefineExhausted(r)

ConcSpec == ConcInit /\ [][ConcNext]_vars

\* the outcome of generate_outfit_on_person run alone (lines 131-175)
SoloOutcome(a) ==
    IF ~Pass1Accepts(a.sd)
    THEN Outcome("failure", NoImage)
    ELSE LET accepted == {k \in 1..Len(flux_models) : Pass2Accepts(a.flux[k])}
         IN  IF accepted # {}
             THEN Outcome("refined",
                          a.flux[CHOOSE k \in accepted : \A j \in accepted : k <= j].img)
             ELSE Outcome("composite", ImageComposite(a.sd.img, a.original, ConcMask))

----------------------------------------------------------------------------
(* _create_clothing_mask, lines 181-236, at the two pixels of the centre    *)
(* column the claims are about.  The blur never lowers a pixel when pixels  *)
(* are added to the filled region, so the blur of a filled rectangle inside *)
(* the torso bounds a pixel of the mask from below, and the blur of all the *)
(* rows from the first filled one on bounds it from above.                  *)

\* number of sizes above 64, in steps of 8, the generator is applied to
MaskSteps == 6

\* widths and heights: the smallest multiples of 8, and two large ones
MaskSizes == {64 + 8 * k : k \in 0..MaskSteps} \cup {512, 2048}

\* int(x * 0.nn) of lines 190-228, for the hundredths nn
Frac(x, nn) == (x * nn) \div 100

\* ImageFilter.GaussianBlur(radius=6), line 234: Pillow blurs with three
\* passes of a box of radius 5.4583 along the rows, then three along the
\* columns.  A pass gives ((sum of the 11 nearest) * ww + (sum of the two
\* pixels next to them) * fw + 2^23) >> 24, with ww = 2^24 / 11.9167.
BoxPasses == 3
BoxRadius == 5
ww == 1407878
fw == 645279

\* (acc * ww + far * fw + 2^23) >> 24, computed in two halves of 12 bits to
\* stay within 32 bits
BoxOut(acc, far) ==
    LET hi == acc * (ww \div 4096) + far * (fw \div 4096) + 2048
        lo == acc * (ww % 4096) + far * (fw % 4096)
    IN  (hi + lo \div 4096) \div 4096

\* pixels beyond the ends of a line count as its first and its last pixel
Clamp(i, len) == IF i < 0 THEN 0 ELSE IF i > len - 1 THEN len - 1 ELSE i

RECURSIVE BoxBlurred(_, _, _, _, _, _)
\* the pixel x after n passes over a line of len pixels that holds v on the
\* pixels lo..hi and 0 elsewhere
BoxBlurred(n, x, lo, hi, v, len) ==
    IF n = 0
    THEN IF lo <= x /\ x <= hi THEN v ELSE 0
    ELSE LET at(i) == BoxBlurred(n - 1, Clamp(i, len), lo, hi, v, len)
             RECURSIVE SumTo(_)
             SumTo(i) == IF i > x + BoxRadius THEN 0 ELSE at(i) + SumTo(i + 1)
         IN  BoxOut(SumTo(x - BoxRadius),
                    at(x - BoxRadius - 1) + at(x + BoxRadius + 1))

\* the first row with a filled pixel: the top of the torso, the regions
\* below start no higher
FirstFilledRow(img_h) ==
    LET top_start == Frac(img_h, 33)
        sleeve_top == Frac(img_h, 34)
        waist_y == Frac(img_h, 52)
        shoe_top == Frac(img_h, 87)
    IN  CHOOSE y \in {top_start, sleeve_top, waist_y, shoe_top} :
            \A z \in {top_start, sleeve_top, waist_y, shoe_top} : y <= z

\* the torso without its narrowing: blurred, the rectangle of the width of
\* the waist between top_start and waist_y (lines 190-197), at (cx, y)
MaskAtLeast(img_w, img_h, y) ==
    LET cx == img_w \div 2
        waist_w == Frac(img_w, 18)
        inRow == BoxBlurred(BoxPasses, cx, cx - waist_w, cx + waist_w, 255, img_w)
    IN  BoxBlurred(BoxPasses, y, Frac(img_h, 33), Frac(img_h, 52), inRow, img_h)

\* all rows from the first filled one on, blurred, at row y
MaskAtMost(img_w, img_h, y) ==
    BoxBlurred(BoxPasses, y, FirstFilledRow(img_h), img_h - 1, 255, img_h)

\* the rows of the two pixels
TorsoRow(img_h) == Frac(img_h, 40)
HeadRow(img_h) == Frac(img_h, 10)

\* what is observed of the mask: its size and the two pixels
create_clothing_mask_at(img_w, img_h) ==
    {[size |-> <<img_w, img_h>>, torso |-> t, head |-> hd] :
        t \in MaskAtLeast(img_w, img_h, TorsoRow(img_h))
                ..MaskAtMost(img_w, img_h, TorsoRow(img_h)),
        hd \in MaskAtLeast(img_w, img_h, HeadRow(img_h))
                ..MaskAtMost(img_w, img_h, HeadRow(img_h))}

MaskInit ==
    /\ NoRun
    /\ NoCache
    /\ NoFrames
    /\ NoEngine
    /\ fin \in MaskSizes \X MaskSizes
    /\ fout = <<>>

\* _create_clothing_mask(fin)
MaskStep ==
    /\ fout = <<>>
    /\ fout' \in create_clothing_mask_at(fin[1], fin[2])
    /\ UNCHANGED <<fin, cacheVars, concVars, engineVars>>
    /\ NoRunUnchanged

MaskNext == MaskStep

MaskSpec == MaskInit /\ [][MaskNext]_vars

----------------------------------------------------------------------------
(* Claims *)

\* what the claims call the outcomes of a refinement candidate
ServerError(r) == ~r.timeout /\ r.status # 200

\* a candidate returned a usable image: status 200 and a picture that decodes,
\* as a binary body above the minimum byte count or as the image field of a
\* JSON success object
UsableImage(r) ==
    /\ ~r.timeout
    /\ r.status = 200
    /\ r.decodable
    /\ \/ r.ct = "image/png" /\ r.size > MinBytes
       \/ r.ct = "application/json" /\ r.success /\ r.image_field

AllCandidatesFailed ==
    \A i \in 1..Len(fluxLog) : ~UsableImage(fluxLog[i].resp)

\* C1: in every run that returns an image, each pixel where the mask is 0 has
\* the value of the same pixel of the normalized original, whether Pass 2
\* failed or succeeded.
C1_MaskZeroPixelsPreserved ==
    pc = "DONE" =>
        \A p \in Pixels : mask[p] = 0 => PngDecode(result)[p] = original[p]

\* C2: the call fails only when normalization/decoding fails or Pass 1 fails;
\* once Pass 1 has produced a composite the run never fails, cannot get stuck
\* and ends by returning an image, and when every refinement candidate has
\* failed that image is the Pass-1 composite.
C2_FailsOnlyBeforeComposite ==
    /\ pc = "FAILED" =>
          /\ composite = NoImage
          /\ \/ failedFrom = "NORMALIZING"
             \/ failedFrom = "SYNTHESIZING" /\ ~Pass1Accepts(sdResp)
    /\ composite # NoImage =>
          /\ pc \in {"REFINING", "DONE"}
          /\ pc = "REFINING" => ENABLED Next
    /\ pc = "DONE" =>
          /\ PngDecode(result) # NoImage
          /\ AllCandidatesFailed => PngDecode(result) = composite

\* C2 witness: both candidates were requested and failed, one by a timeout,
\* and the composite came back
C2_Witness ==
    /\ pc = "DONE"
    /\ Len(fluxLog) = 2
    /\ fluxLog[1].resp.timeout
    /\ ServerError(fluxLog[2].resp)
    /\ PngDecode(result) = composite
    /\ composite # NoImage

\* C3: FAILED is entered only from a decode error of the input or from a
\* synthesis failure in SYNTHESIZING; never from MASKING, COMPOSITING or
\* REFINING, nor from NORMALIZING when the input image is decodable.
C3_FailedOnlyFromDecodeOrSynthesis ==
    pc = "FAILED" =>
        \/ failedFrom = "NORMALIZING" /\ ~input.decodable
        \/ failedFrom = "SYNTHESIZING"

\* C6: when the synthesis endpoint answers with a non-200 status the run has
\* failed with the synthesis failure, nothing was composited, no refinement
\* candidate was requested, and nothing more happens in the run.
C6_ServerErrorStopsTheRun ==
    ServerError(sdResp) /\ sdResp # NoResponse =>
        /\ pc = "FAILED"
        /\ failedFrom = "SYNTHESIZING"
        /\ error = "Pass 1 (SD img2img) failed"
        /\ compositeCalls = 0
        /\ composite = NoImage
        /\ fluxLog = <<>>
        /\ result = NoResult
        /\ ~ENABLED Next

\* C6 witness: the endpoint answered 500 and the run has failed
C6_Witness ==
    /\ sdResp.status = 500
    /\ pc = "FAILED"
    /\ mask # NoImage

\* C4: every run that reaches REFINING reaches DONE, whatever the candidates
\* answer, and no step leads from REFINING to FAILED.
C4_RefiningLeadsToDone ==
    /\ (pc = "REFINING") ~> (pc = "DONE")
    /\ [][pc = "REFINING" => pc' # "FAILED"]_vars

\* C4 witness: a run is DONE after a timeout of the first candidate and an
\* undecodable binary body of the second
C4_Witness ==
    /\ pc = "DONE"
    /\ Len(fluxLog) = 2
    /\ fluxLog[1].resp.timeout
    /\ fluxLog[2].resp.status = 200
    /\ fluxLog[2].resp.ct = "image/png"
    /\ ~fluxLog[2].resp.decodable

C7_ThirdCandidateRefines ==
    (/\ pc = "DONE"
     /\ Len(fluxLog) >= 2
     /\ ServerError(fluxLog[1].resp)
     /\ ServerError(fluxLog[2].resp)) =>
        /\ Len(fluxLog) = 3
        /\ UsableImage(fluxLog[3].resp) =>
              refined = fluxLog[3].resp.img /\ PngDecode(result) = refined

\* C7 amended: there are two candidates.  When the first returns a server
\* error and the second a valid image, refined is the second candidate's image,
\* it is returned, and no further candidate is requested; when both return
\* server errors no third candidate is requested and the composite is returned.
\* A run gives up refinement only after both candidates were requested.
C7_SecondCandidateRefines ==
    /\ Len(fluxLog) <= 2
    /\ \A i \in 1..Len(fluxLog) : fluxLog[i].model = flux_models[i]
    /\ pc = "DONE" =>
          /\ (/\ Len(fluxLog) = 2
              /\ ServerError(fluxLog[1].resp)
              /\ UsableImage(fluxLog[2].resp)) =>
                 /\ refined = fluxLog[2].resp.img
                 /\ PngDecode(result) = refined
          /\ refined = NoImage =>
                 /\ Len(fluxLog) = 2
                 /\ fluxLog[2].model = "flux2-klein-4b"
                 /\ PngDecode(result) = composite

\* C7 witness: a server error of the first candidate, a valid image of the
\* second, which is returned
C7_Witness ==
    /\ pc = "DONE"
    /\ Len(fluxLog) = 2
    /\ ServerError(fluxLog[1].resp)
    /\ UsableImage(fluxLog[2].resp)
    /\ fluxLog[2].model = "flux2-klein-4b"
    /\ refined = fluxLog[2].resp.img
    /\ refined # composite

\* C8: at every pixel and channel the composite is the original where the mask
\* is 0, the generated value where the mask is 255, and between them the blend
\* original * (1 - m/255) + generated * (m/255), as the nearest 8-bit value.
C8_CompositeIsMaskBlend ==
    fout # <<>> /\ Len(fin) = 3 =>
        LET o == fin[1]
            g == fin[2]
            m == fin[3]
            r == fout[1]
            d == 255 * r - (o * (255 - m) + g * m)
        IN  /\ r \in 0..255
            /\ m = 0 => r = o
            /\ m = 255 => r = g
            /\ 2 * d <= 255
            /\ 2 * d >= -255

\* C8 witness: a feathered pixel whose blend lies strictly between the two
C8_Witness ==
    /\ fout # <<>>
    /\ Len(fin) = 3
    /\ fin[3] \in 1..254
    /\ fin[1] < fout[1]
    /\ fout[1] < fin[2]

\* C9: when the generated picture equals the original, the composite equals the
\* original for every mask value, feathered ones included.
C9_CompositeOfEqualPictures ==
    fout # <<>> /\ Len(fin) = 3 /\ fin[1] = fin[2] => fout[1] = fin[1]

\* C9 witness: equal pictures composited through a feathered mask value
C9_Witness ==
    /\ fout # <<>>
    /\ Len(fin) = 3
    /\ fin[1] = fin[2]
    /\ fin[1] \in 1..254
    /\ fin[3] \in 1..254

\* C10: for every input size the output dimensions are multiples of 8, at most
\* max_size, the larger one is max_size, and the smaller one is max_size *
\* smaller / larger rounded down by less than one step of 8.
C10_NormalizerDimensions ==
    fout # <<>> /\ Len(fin) = 2 =>
        LET w == fin[1]
            h == fin[2]
            small == IF w > h THEN h ELSE w
            large == IF w > h THEN w ELSE h
            outSmall == IF w > h THEN fout[2] ELSE fout[1]
            outLarge == IF w > h THEN fout[1] ELSE fout[2]
        IN  /\ fout[1] % 8 = 0
            /\ fout[2] % 8 = 0
            /\ fout[1] <= max_size
            /\ fout[2] <= max_size
            /\ outLarge = max_size
            /\ outSmall * large <= max_size * small
            /\ max_size * small < (outSmall + 8) * large

\* C10 witness: a landscape photo whose scaled height is no multiple of 8
C10_Witness ==
    /\ fout # <<>>
    /\ Len(fin) = 2
    /\ fin[1] > fin[2]
    /\ ((fin[2] * max_size) \div fin[1]) % 8 # 0
    /\ fout[2] > 0
    /\ fout[2] < max_size

----------------------------------------------------------------------------
(* Pass 1 and Pass 2: which responses fail, and what a failure does *)

\* the four responses that make Pass 1 fail
SynthesisFailureResponse(r) ==
    \/ r.timeout
    \/ ~r.timeout /\ r.status # 200
    \/ ~r.timeout /\ r.status = 200 /\ r.ct = "application/json"
    \/ ~r.timeout /\ r.status = 200 /\ r.ct # "application/json"
       /\ r.size < MinBytes

\* C16: a response of the img2img endpoint that timed out, has a status other
\* than 200, has status 200 and a JSON content type (a body of any size), or
\* is a binary body of fewer than MinBytes bytes, makes the run fail in
\* SYNTHESIZING with the synthesis failure: nothing is decoded from it, and no
\* composite is made and no further request sent
C16_SynthesisFailureAborts ==
    (pc # "" /\ sdResp # NoResponse /\ SynthesisFailureResponse(sdResp)) =>
        /\ pc = "FAILED"
        /\ error = "Pass 1 (SD img2img) failed"
        /\ failedFrom = "SYNTHESIZING"
        /\ generated = NoImage
        /\ composite = NoImage
        /\ compositeCalls = 0
        /\ requests = <<"img2img">>

\* a JSON body of status 200 and more than MinBytes bytes, bytes of a picture
\* even, has made the run fail
C16_Witness ==
    /\ pc = "FAILED"
    /\ sdResp.status = 200
    /\ sdResp.ct = "application/json"
    /\ sdResp.size > MinBytes
    /\ sdResp.decodable

\* C17: the candidates are requested strictly in the order of the list, the
\* model of higher capacity first; a candidate is requested only after every
\* earlier one has failed; the first usable image ends the run at once, with
\* that image as the refinement, and no later candidate is requested.
C17_CandidatesInListOrder ==
    /\ Len(fluxLog) <= Len(flux_models)
    /\ \A i \in 1..Len(fluxLog) :
          /\ fluxLog[i].model = flux_models[i]
          /\ \A j \in 1..(i - 1) :
                /\ Capacity[fluxLog[j].model] > Capacity[fluxLog[i].model]
                /\ ~UsableImage(fluxLog[j].resp)
          /\ UsableImage(fluxLog[i].resp) =>
                /\ i = Len(fluxLog)
                /\ pc = "DONE"
                /\ refined = fluxLog[i].resp.img
                /\ ~ENABLED RefineTry

\* C17 witness: the first candidate answered with a usable image although a
\* second candidate was left, and the run is over
C17_Witness ==
    /\ pc = "DONE"
    /\ Len(fluxLog) = 1
    /\ Len(flux_models) > 1
    /\ fluxLog[1].model = "flux2-klein-9b"
    /\ UsableImage(fluxLog[1].resp)

\* the five failures of a refinement candidate
RefinementFailureResponse(r) ==
    \/ r.timeout
    \/ ~r.timeout /\ r.status # 200
    \/ ~r.timeout /\ r.status = 200 /\ r.ct = "application/json"
       /\ ~(r.success /\ r.image_field)
    \/ ~r.timeout /\ r.status = 200 /\ r.ct # "application/json"
       /\ r.size < MinBytes
    \/ ~r.timeout /\ r.status = 200 /\ ~r.decodable

\* C18: after a candidate's non-200 status, timeout, JSON body without an
\* image, binary body of fewer than MinBytes bytes or undecodable picture, the
\* loop has moved to the next candidate, or (after the last one) the
\* refinement ends without an image; the run has not failed and carries no
\* exception.  A timeout of the synthesis request, though, has failed the run.
C18_RefinementFailuresAdvance ==
    /\ \A i \in 1..Len(fluxLog) :
          RefinementFailureResponse(fluxLog[i].resp) =>
              /\ pc \in {"REFINING", "DONE"}
              /\ error = ""
              /\ \/ i < Len(fluxLog) /\ fluxLog[i + 1].model = flux_models[i + 1]
                 \/ i = Len(fluxLog) /\ idx = i + 1
              /\ (i = Len(flux_models) /\ pc = "DONE") =>
                    refined = NoImage /\ PngDecode(result) = composite
    /\ (pc # "" /\ sdResp.timeout) => pc = "FAILED" /\ failedFrom = "SYNTHESIZING"

\* C18 witness: the first candidate timed out, the last gave a JSON body
\* without an image, and the run returned the composite
C18_Witness ==
    /\ pc = "DONE"
    /\ Len(fluxLog) = Len(flux_models)
    /\ fluxLog[1].resp.timeout
    /\ fluxLog[Len(fluxLog)].resp.ct = "application/json"
    /\ fluxLog[Len(fluxLog)].resp.success
    /\ ~fluxLog[Len(fluxLog)].resp.image_field
    /\ refined = NoImage
    /\ error = ""

\* how far a run has come: every step of the run goes up
Rank ==
    CASE pc = "NORMALIZING" -> 0
      [] pc = "MASKING" -> 1
      [] pc = "SYNTHESIZING" -> 2
      [] pc = "COMPOSITING" -> 3
      [] pc = "REFINING" -> 3 + idx
      [] OTHER -> 5 + Len(flux_models)

\* C19: no request is sent twice: a run sends at most one synthesis request
\* and at most one request to each candidate, so at most 1 + (number of
\* candidates) requests; and the run terminates: a run that is not over has a
\* next step, every step takes it further, and a run that is over has none.
C19_NoRequestIsRepeated ==
    /\ [](/\ Len(requests) <= 1 + Len(flux_models)
          /\ \A i, j \in 1..Len(requests) : requests[i] = requests[j] => i = j
          /\ \A i \in 1..Len(requests) :
                requests[i] = IF i = 1 THEN "img2img" ELSE flux_models[i - 1]
          /\ Rank <= 5 + Len(flux_models)
          /\ (pc \in {"DONE", "FAILED"}) <=> ~ENABLED Next)
    /\ [][Rank' > Rank]_vars

\* C19 witness: a run that sent every request it can send, all failing after
\* the synthesis
C19_Witness ==
    /\ pc = "DONE"
    /\ Len(requests) = 1 + Len(flux_models)
    /\ AllCandidatesFailed

\* a JSON body of status 200 that holds an encoded picture
JsonWithImage(r) ==
    /\ ~r.timeout
    /\ r.status = 200
    /\ r.ct = "application/json"
    /\ r.success
    /\ r.image_field
    /\ r.decodable

\* C20: a candidate's answer of status 200 that is a JSON body with an encoded
\* picture is a success: the picture is decoded and returned at once, and no
\* later candidate is requested.
C20_JsonImageIsSuccess ==
    \A i \in 1..Len(fluxLog) :
        JsonWithImage(fluxLog[i].resp) =>
            /\ i = Len(fluxLog)
            /\ requests[Len(requests)] = flux_models[i]
            /\ pc = "DONE"
            /\ refined = fluxLog[i].resp.img
            /\ refined # NoImage
            /\ PngDecode(result) = fluxLog[i].resp.img
            /\ ~ENABLED Next

\* C20 witness: the first candidate answered with JSON holding a picture that
\* is not the composite, and that picture is returned
C20_Witness ==
    /\ pc = "DONE"
    /\ Len(fluxLog) = 1
    /\ JsonWithImage(fluxLog[1].resp)
    /\ PngDecode(result) # composite
----------------------------------------------------------------------------
(* The cache manager *)

\* the arguments of the call recorded in c
TripleOf(c) == <<c.user_id, c.occasion, c.style>>

KeyOf(t) == generate_key(t[1], t[2], t[3])

\* C14: after clear_user_cache(u) has returned, get_cached_analysis(u, o, s)
\* returns None for every (o, s) cached for u; and clear_user_cache(u) leaves
\* the entries cached for the other users as they are, so that they are
\* still returned.
C14_ClearUserCacheClearsTheUser ==
    [][/\ (/\ got.op = "clear_user_cache"
           /\ got'.op = "get_cached_analysis"
           /\ got'.user_id = got.user_id
           /\ TripleOf(got') \in DOMAIN stored)
          => got'.ret = "None"
       /\ got'.op = "clear_user_cache" =>
             \A t \in DOMAIN stored :
                 (t[1] # got'.user_id /\ KeyOf(t) \in DOMAIN cache) =>
                     /\ KeyOf(t) \in DOMAIN cache'
                     /\ cache'[KeyOf(t)] = cache[KeyOf(t)]]_vars

\* the step is a call of get_cached_analysis
IsGet == got'.op = "get_cached_analysis" /\ clock' = clock

\* the entry of the triple t is in the cache, and its age is at most the TTL
Fresh(t) ==
    /\ t \in DOMAIN stored
    /\ KeyOf(t) \in DOMAIN cache
    /\ clock - fromisoformat(cache[KeyOf(t)].timestamp) <= ttl_minutes

\* C15: whatever calls came before, get_cached_analysis(u, o, s) returns the
\* data last cached for (u, o, s) if that entry is in the cache and its age is
\* at most the TTL, and None otherwise; and an entry the call finds expired
\* is removed by it.
C15_GetReturnsLatestFreshData ==
    [][IsGet =>
        /\ got'.ret = IF Fresh(TripleOf(got'))
                       THEN stored[TripleOf(got')]
                       ELSE "None"
        /\ (/\ KeyOf(TripleOf(got')) \in DOMAIN cache
            /\ ~Fresh(TripleOf(got')))
           => KeyOf(TripleOf(got')) \notin DOMAIN cache']_vars

\* no two of the triples cached so far, or asked for, are formatted to the
\* same string by line 18
NoSharedKey ==
    \A t1, t2 \in DOMAIN stored \cup {TripleOf(got')} :
        KeyOf(t1) = KeyOf(t2) => t1 = t2

\* C15 holds of the calls whose triples do not share a key with another one
GetReturnsLatestFreshDataOfOwnKey ==
    [][(IsGet /\ NoSharedKey) =>
        /\ got'.ret = IF Fresh(TripleOf(got'))
                       THEN stored[TripleOf(got')]
                       ELSE "None"
        /\ (/\ KeyOf(TripleOf(got')) \in DOMAIN cache
            /\ ~Fresh(TripleOf(got')))
           => KeyOf(TripleOf(got')) \notin DOMAIN cache']_vars
----------------------------------------------------------------------------
(* Concurrent runs *)

\* C12: in every interleaving of two runs on one service instance, a run
\* that is over has the outcome (failure, composite or refined image) it has
\* when run alone on the same photo with the same answers of the endpoints,
\* and the credentials and the model table of the instance are as __init__
\* left them.
C12_RunsDoNotInterfere ==
    /\ service = ServiceConfig
    /\ \A r \in Runs :
          frames[r].pc \in {"DONE", "FAILED"} =>
              frames[r].outcome = SoloOutcome(frames[r].args)

\* C12 witness: both runs are over, one returned its composite and the other
\* a refined image, on photos of different colours
C12_Witness ==
    /\ frames # <<>>
    /\ frames[1].pc = "DONE"
    /\ frames[2].pc = "DONE"
    /\ frames[1].outcome.kind = "composite"
    /\ frames[2].outcome.kind = "refined"
    /\ frames[1].args.original # frames[2].args.original
    /\ frames[1].outcome.image # frames[1].args.original
----------------------------------------------------------------------------
(* End to end *)

\* the pixels of the composite made by this step that have the value c
WithColour(c) == {p \in Pixels : composite'[p] = c}

\* the white region of the mask, and its feathered boundary
White == {p \in Pixels : mask[p] = 255}
Feathered == {p \in Pixels : 0 < mask[p] /\ mask[p] < 255}

\* C13: for an input of 256 x 384 and a synthesis response that is a picture
\* of one colour, of another size than the working size and of a colour the
\* original does not have, the pixels of the composite that have that colour
\* are the white pixels of the mask and at most the feathered ones besides:
\* their fraction is the white fraction f up to the feathered pixels.
C13_SolidColourFillsTheMask ==
    [][(/\ pc = "COMPOSITING"
        /\ input.w = 256 /\ input.h = 384
        /\ sdResp.img \in Solid
        /\ ~sdResp.same_size
        /\ \A p \in Pixels : original[p] # sdResp.img[p])
       => /\ <<new_w, new_h>> = <<336, 512>>
          /\ White \subseteq WithColour(sdResp.img[1])
          /\ WithColour(sdResp.img[1]) \subseteq White \cup Feathered
          /\ Cardinality(White) <= Cardinality(WithColour(sdResp.img[1]))
          /\ Cardinality(WithColour(sdResp.img[1]))
                <= Cardinality(White) + Cardinality(Feathered)]_vars

\* C13 witness: the composite of such a run, on a mask with a white, a black
\* and no other pixel: one pixel has the colour of the response, the other
\* that of the original
C13_Witness ==
    /\ pc = "REFINING"
    /\ input.w = 256 /\ input.h = 384
    /\ \E p, q \in Pixels :
          /\ mask[p] = 255 /\ mask[q] = 0
          /\ composite[p] # original[p]
          /\ composite[q] = original[q]
          /\ \A o \in Pixels : original[o] = original[q]
----------------------------------------------------------------------------
(* The mask generator *)

\* C11: for every width and height that are multiples of 8 from 64 to 2048
\* the mask has exactly that size, the pixel of the centre column at
\* 0.40 x height (torso) is in 1..255, and the pixel of the centre column at
\* 0.10 x height (head) is exactly 0.
C11_MaskSizeTorsoAndHead ==
    fout # <<>> =>
        /\ fout.size = fin
        /\ fout.torso \in 1..255
        /\ fout.head = 0

\* what holds of C11: the size, the torso pixel, and the head pixel of the
\* frames of more than 64 rows
MaskSizeTorsoAndHeadAbove64 ==
    fout # <<>> =>
        /\ fout.size = fin
        /\ fout.torso \in 1..255
        /\ fout.head \in 0..255
        /\ fin[2] > 64 => fout.head = 0
----------------------------------------------------------------------------
(* Sizes and order of the stages *)

\* C21: when the compositor runs, the original, the generated picture and the
\* mask all have the working size the normalizer computed, also when the
\* endpoint's picture had another size.
C21_CompositorGetsTheWorkingSize ==
    pc = "COMPOSITING" =>
        /\ imgSize.original = <<new_w, new_h>>
        /\ imgSize.mask = <<new_w, new_h>>
        /\ imgSize.generated = <<new_w, new_h>>
        /\ <<new_w, new_h>> = resize_for_model(input.w, input.h)

\* C21 witness: the compositor is about to run on a picture the endpoint sent
\* in another size
C21_Witness ==
    /\ pc = "COMPOSITING"
    /\ ~sdResp.same_size
    /\ imgSize.generated = <<new_w, new_h>>
    /\ <<new_w, new_h>> = <<336, 512>>

\* the stages a stage can be followed by
StageOrder ==
    {<<"NORMALIZING", "MASKING">>, <<"NORMALIZING", "FAILED">>,
     <<"MASKING", "SYNTHESIZING">>,
     <<"SYNTHESIZING", "COMPOSITING">>, <<"SYNTHESIZING", "FAILED">>,
     <<"COMPOSITING", "REFINING">>,
     <<"REFINING", "REFINING">>, <<"REFINING", "DONE">>}

\* C23: the stages of a run follow one another in the order normalize, mask,
\* synthesis request, composite, refinement requests: the mask exists when the
\* synthesis request is sent, the composite exists when a refinement request
\* is sent, and a step sends at most one request and has its answer before
\* the next step, so that never two requests of the run are in flight.
C23_StagesInOrderOneRequestAtATime ==
    /\ [](/\ requests # <<>> =>
                /\ requests[1] = "img2img"
                /\ original # NoImage
                /\ mask # NoImage
          /\ Len(requests) > 1 =>
                /\ composite # NoImage
                /\ compositeCalls = 1
                /\ Len(fluxLog) = Len(requests) - 1
          /\ fluxLog # <<>> => Len(requests) = Len(fluxLog) + 1)
    /\ [][/\ <<pc, pc'>> \in StageOrder
          /\ Len(requests') <= Len(requests) + 1
          /\ Len(requests') = Len(requests) + 1 =>
                pc \in {"SYNTHESIZING", "REFINING"}]_vars

\* C23 witness: a run that went through every stage and sent every request
C23_Witness ==
    /\ pc = "DONE"
    /\ requests = <<"img2img">> \o flux_models
    /\ mask # NoImage
    /\ composite # NoImage

\* C26: for every decodable input, of any width and height from 1 on, the
\* working dimensions are both at least 8 and the run does not fail in
\* NORMALIZING.
C26_WorkingSizeAtLeast8 ==
    (pc \notin {"", "NORMALIZING"} /\ input.decodable) =>
        /\ new_w >= 8
        /\ new_h >= 8
        /\ failedFrom # "NORMALIZING"

----------------------------------------------------------------------------
(* The size submitted to the refinement: _pass2_flux_refine, lines 333-337 *)

Max2(a, b) == IF a >= b THEN a ELSE b

Min2(a, b) == IF a >= b THEN b ELSE a

\* the longer side the composite is scaled to (line 334)
refine_size == 768

\* lines 334-336 without the truncation to multiples of 8
refine_resize_unrounded(w, h) ==
    <<(w * refine_size) \div Max2(w, h), (h * refine_size) \div Max2(w, h)>>

\* new_w, new_h of lines 333-336 for a composite of size (w, h);
\* scale = 768 / max(w, h) is 1.5 for every working size, so that
\* int(w * scale) is the floor of the quotient
refine_resize(w, h) ==
    <<(((w * refine_size) \div Max2(w, h)) \div 8) * 8,
      (((h * refine_size) \div Max2(w, h)) \div 8) * 8>>

\* the photos the normalizer gives a working size for
RefineInit ==
    /\ NoRun
    /\ fin \in {d \in Dims \X Dims : ResizeDefined(resize_for_model(d[1], d[2]))}
    /\ fout = <<>>
    /\ NoCache
    /\ NoFrames
    /\ NoEngine

\* lines 333-336 applied to composite.size, the working size of the photo fin
RefineStep ==
    /\ fout = <<>>
    /\ LET c == resize_for_model(fin[1], fin[2])
       IN  fout' = [composite |-> c, submitted |-> refine_resize(c[1], c[2])]
    /\ UNCHANGED <<fin, cacheVars, concVars, engineVars>>
    /\ NoRunUnchanged

RefineNext == RefineStep

RefineSpec == RefineInit /\ [][RefineNext]_vars

\* C22: the picture submitted to the refinement has both dimensions divisible
\* by 8 and at most 768; its larger dimension is 768, on the side of the
\* composite's larger one, and its smaller dimension is the composite's smaller
\* one scaled by the same factor 768 / max and rounded down to a multiple of 8.
C22_SubmittedSizeIsScaledTo768 ==
    fout # <<>> =>
        LET c == fout.composite
            s == fout.submitted
            scaled == (Min2(c[1], c[2]) * 768) \div Max2(c[1], c[2])
        IN  /\ s[1] % 8 = 0 /\ s[2] % 8 = 0
            /\ s[1] <= 768 /\ s[2] <= 768
            /\ Max2(s[1], s[2]) = 768
            /\ Min2(s[1], s[2]) = scaled - (scaled % 8)
            /\ Min2(s[1], s[2]) >= 8
            /\ (c[1] >= c[2]) => s[1] = 768
            /\ (c[2] >= c[1]) => s[2] = 768

\* C22 witness: a composite whose scaled smaller side, 1.5 * 328 = 492, is no
\* multiple of 8
C22_Witness ==
    /\ fout # <<>>
    /\ fout.composite = <<328, 512>>
    /\ fout.submitted = <<488, 768>>

----------------------------------------------------------------------------
(* The minimum byte count of a binary body in the two passes *)

\* how far below and above MinBytes the byte counts go
ByteSpan == 60

ByteCounts == (MinBytes - ByteSpan)..(MinBytes + ByteSpan)

\* a 200 response whose binary body of n bytes is a picture
BinaryOfSize(n) ==
    Response(FALSE, 200, "image/png", FALSE, FALSE, n, TRUE,
             [p \in Pixels |-> 40], TRUE)

BytesInit ==
    /\ NoRun
    /\ fin \in ByteCounts
    /\ fout = <<>>
    /\ NoCache
    /\ NoFrames
    /\ NoEngine

\* lines 302-307 and lines 395-400 applied to a body of fin bytes
BytesStep ==
    /\ fout = <<>>
    /\ fout' = [pass1 |-> Pass1Accepts(BinaryOfSize(fin)),
                pass2 |-> Pass2Accepts(BinaryOfSize(fin))]
    /\ UNCHANGED <<fin, cacheVars, concVars, engineVars>>
    /\ NoRunUnchanged

BytesNext == BytesStep

BytesSpec == BytesInit /\ [][BytesNext]_vars

\* C25: Pass 1 and Pass 2 apply the same minimum-size rule: a binary body of
\* N bytes is accepted by Pass 1 exactly when it is accepted by Pass 2, for
\* every N, N = 1000 included.
C25_SameMinimumSizeRule ==
    fout # <<>> => (fout.pass1 <=> fout.pass2)

----------------------------------------------------------------------------
(* The regions filled into the mask: _create_clothing_mask, lines 187-231 *)

\* the vertices of the polygons and the corners of the rectangles given to
\* draw.polygon and draw.rectangle, by region; int(cx - img_w * 0.38)
\* truncates a positive number, so that the product is rounded up
mask_regions(img_w, img_h) ==
    LET cx == img_w \div 2
        top_start == Frac(img_h, 33)
        shoulder_w == Frac(img_w, 26)
        waist_y == Frac(img_h, 52)
        waist_w == Frac(img_w, 18)
        sleeve_top == Frac(img_h, 34)
        sleeve_bottom == Frac(img_h, 55)
        left_inner == cx - shoulder_w
        left_outer == cx - ((img_w * 38 + 99) \div 100)
        right_inner == cx + shoulder_w
        right_outer == cx + Frac(img_w, 38)
        hip_w == Frac(img_w, 20)
        ankle_y == Frac(img_h, 87)
        ankle_w == Frac(img_w, 8)
        shoe_top == Frac(img_h, 87)
        shoe_bot == Frac(img_h, 95)
    IN  [torso |-> <<<<cx - shoulder_w, top_start>>, <<cx + shoulder_w, top_start>>,
                     <<cx + waist_w, waist_y>>, <<cx - waist_w, waist_y>>>>,
         left_sleeve |-> <<<<left_inner, sleeve_top>>, <<left_outer, Frac(img_h, 40)>>,
                           <<left_outer, sleeve_bottom>>, <<left_inner, waist_y>>>>,
         right_sleeve |-> <<<<right_inner, sleeve_top>>, <<right_outer, Frac(img_h, 40)>>,
                            <<right_outer, sleeve_bottom>>, <<right_inner, waist_y>>>>,
         left_leg |-> <<<<cx - hip_w, waist_y>>, <<cx - 4, waist_y>>,
                        <<cx - 4, ankle_y>>, <<cx - ankle_w - 4, ankle_y>>>>,
         right_leg |-> <<<<cx + 4, waist_y>>, <<cx + hip_w, waist_y>>,
                         <<cx + ankle_w + 4, ankle_y>>, <<cx + 4, ankle_y>>>>,
         left_shoe |-> <<<<cx - hip_w, shoe_top>>, <<cx - ankle_w + 10, shoe_bot>>>>,
         right_shoe |-> <<<<cx + ankle_w - 10, shoe_top>>, <<cx + hip_w, shoe_bot>>>>]

\* photos of every size the normalizer can produce: they are their own
\* working size
WorkingSizePhotos ==
    {<<max_size, 8 * k>> : k \in 1..(max_size \div 8)}
    \cup {<<8 * k, max_size>> : k \in 1..(max_size \div 8)}

RegionInit ==
    /\ NoRun
    /\ fin \in WorkingSizePhotos
    /\ fout = <<>>
    /\ NoCache
    /\ NoFrames
    /\ NoEngine

\* lines 141-150 and 187-231 applied to a photo of size fin
RegionStep ==
    /\ fout = <<>>
    /\ LET size == resize_for_model(fin[1], fin[2])
       IN  fout' = [size |-> size, regions |-> mask_regions(size[1], size[2])]
    /\ UNCHANGED <<fin, cacheVars, concVars, engineVars>>
    /\ NoRunUnchanged

RegionNext == RegionStep

RegionSpec == RegionInit /\ [][RegionNext]_vars

\* C27: for every working size the normalizer can produce, every region
\* filled into the mask lies inside the frame, each vertex with x in
\* 0..width-1 and y in 0..height-1, and at or below the row int(0.33 * height).
C27_RegionsInsideTheFrame ==
    fout # <<>> =>
        \A name \in DOMAIN fout.regions :
            \A i \in DOMAIN fout.regions[name] :
                LET v == fout.regions[name][i]
                IN  /\ v[1] \in 0..(fout.size[1] - 1)
                    /\ v[2] \in 0..(fout.size[2] - 1)
                    /\ v[2] >= (fout.size[2] * 33) \div 100

----------------------------------------------------------------------------
(* The masks of two runs: what _pass1_sd_composite makes its mask from      *)
(* (lines 238-248).  A mask is given by the regions drawn into it: the blur *)
(* of line 234 is a fixed filter of the drawn picture.                      *)

\* the mask of a run whose body attributes change the drawn figure
pass1_mask_fitted(photo, img_w, img_h, outfit_description, body_attributes) ==
    IF body_attributes = "athletic"
    THEN mask_regions(img_w + 8, img_h)
    ELSE mask_regions(img_w, img_h)

\* mask of line 248: of the arguments of _pass1_sd_composite only img_w and
\* img_h are handed to _create_clothing_mask, which reads nothing else
pass1_mask(photo, img_w, img_h, outfit_description, body_attributes) ==
    mask_regions(img_w, img_h)

\* sizes of the photos of the two runs: two of them share a working size
PhotoSizes == {<<512, 512>>, <<1024, 1024>>, <<256, 512>>, <<512, 256>>}

\* the arguments of generate_outfit_on_person (lines 110-112), the photo as
\* its size and its pixels
MaskCalls ==
    [size : PhotoSizes,
     pixels : Solid,
     outfit_description : {"white shirt, blue jeans, sneakers", "red dress, heels"},
     body_attributes : {"slim", "athletic"}]

NoMask == <<>>

MaskRunsInit ==
    /\ NoRun
    /\ fin \in [Runs -> MaskCalls]
    /\ fout = [r \in Runs |-> NoMask]
    /\ NoCache
    /\ NoFrames
    /\ NoEngine

\* lines 141-155 and 248 of run r
MaskOfRun(r) ==
    /\ fout[r] = NoMask
    /\ LET size == resize_for_model(fin[r].size[1], fin[r].size[2])
       IN  fout' = [fout EXCEPT ![r] =
                      pass1_mask(fin[r].pixels, size[1], size[2],
                                 fin[r].outfit_description, fin[r].body_attributes)]
    /\ UNCHANGED <<fin, cacheVars, concVars, engineVars>>
    /\ NoRunUnchanged

MaskRunsNext == \E r \in Runs : MaskOfRun(r)

MaskRunsSpec == MaskRunsInit /\ [][MaskRunsNext]_vars

\* the working size of the photo of run r
WorkingSize(r) == resize_for_model(fin[r].size[1], fin[r].size[2])

----------------------------------------------------------------------------
(* The upload endpoints of main.py: /api/analyze (lines 117-156),           *)
(* /api/quick-analyze (158-184), /api/generate-outfit-on-person (323-382)   *)

\* 10 * 1024 * 1024, the byte limit of lines 134, 169 and 356
max_upload == 10485760

\* how far below and above the limit the uploads go
SizeSpan == 3

UploadSizes == (max_upload - SizeSpan)..(max_upload + SizeSpan)

Endpoints == {"/api/analyze", "/api/quick-analyze", "/api/generate-outfit-on-person"}

\* a request: its endpoint, the byte count of the uploaded image, whether
\* cloudflare_diffusion was constructed (lines 60-65), and whether the
\* service the handler calls returns or raises
Uploads ==
    [endpoint : Endpoints, size : UploadSizes, configured : BOOLEAN,
     downstream : {"returns", "raises"}]

\* the answer: the HTTP status and the services called for it
Answer(status, calls) == [status |-> status, calls |-> calls]

\* what FastAPI answers when the handler's try block raised HTTPException
\* (status) and the handler has the clause "except HTTPException: raise he"
\* before "except Exception"
ReraisedAsIs(status) == status

\* what FastAPI answers when the only clause is "except Exception", which
\* catches HTTPException as well and raises HTTPException(500) (lines 182-184)
ReraisedAs500(status) == 500

\* the answer after the call of the service: lines 147, 177-180, 372-376, or
\* the "except Exception" clause
AfterCall(name) ==
    IF fin.downstream = "returns" THEN Answer(200, <<name>>)
    ELSE Answer(500, <<name>>)

HttpInit ==
    /\ NoRun
    /\ fin \in Uploads
    /\ fout = <<>>
    /\ NoCache
    /\ NoFrames
    /\ NoEngine

HttpUnchanged ==
    /\ UNCHANGED <<fin, cacheVars, concVars, engineVars>>
    /\ NoRunUnchanged

\* lines 127-156
analyze_outfit ==
    /\ fin.endpoint = "/api/analyze"
    /\ fout = <<>>
    /\ fout' = IF fin.size > max_upload
               THEN Answer(ReraisedAsIs(400), <<>>)
               ELSE AfterCall("recommendation_engine.generate_recommendations")
    /\ HttpUnchanged

\* lines 165-184
quick_analyze ==
    /\ fin.endpoint = "/api/quick-analyze"
    /\ fout = <<>>
    /\ fout' = IF fin.size > max_upload
               THEN Answer(ReraisedAs500(400), <<>>)
               ELSE AfterCall("openrouter_service.describe_outfit")
    /\ HttpUnchanged

\* lines 344-382: the service is looked at before the upload is read
generate_outfit_on_person ==
    /\ fin.endpoint = "/api/generate-outfit-on-person"
    /\ fout = <<>>
    /\ fout' = IF ~fin.configured
               THEN Answer(ReraisedAsIs(503), <<>>)
               ELSE IF fin.size > max_upload
                    THEN Answer(ReraisedAsIs(400), <<>>)
                    ELSE AfterCall("cloudflare_diffusion.generate_outfit_on_person")
    /\ HttpUnchanged

HttpNext ==
    \/ analyze_outfit
    \/ quick_analyze
    \/ generate_outfit_on_person

HttpSpec == HttpInit /\ [][HttpNext]_vars

\* C28: each of the three upload endpoints answers an upload of more than
\* 10 MB with status 400 and calls no downstream service.
C28_TooLargeIs400 ==
    (fout # <<>> /\ fin.size > max_upload) =>
        /\ fout.status = 400
        /\ fout.calls = <<>>

\* the part of C28 that holds on every endpoint: no service is called for an
\* upload of more than 10 MB; /api/analyze answers it with 400, and so does
\* /api/generate-outfit-on-person when the diffusion service is configured
TooLargeCallsNothing ==
    (fout # <<>> /\ fin.size > max_upload) =>
        /\ fout.calls = <<>>
        /\ fout.status \in {400, 500, 503}
        /\ fin.endpoint = "/api/analyze" => fout.status = 400
        /\ (fin.endpoint = "/api/generate-outfit-on-person" /\ fin.configured) =>
              fout.status = 400

----------------------------------------------------------------------------
(* RecommendationEngine.generate_recommendations, recommendation_engine.py  *)
(* lines 62-312: one call, in the steps between its awaits                  *)

\* the outfits the analysis prompt asks for: range(1, 4) of line 164
OutfitNumbers == 1..3

\* the markers "OUTFIT i:" of s in increasing order: the recommendations
\* appended by the loop of lines 164-212
RECURSIVE Parsed(_)
Parsed(s) ==
    IF s = {} THEN <<>>
    ELSE LET i == CHOOSE x \in s : \A y \in s : x <= y
         IN  <<i>> \o Parsed(s \ {i})

\* what groq_service.analyze_image answers to the attributes prompt: the
\* body attributes parsed from it (lines 95-101)
AttributeTexts == {"slim", "athletic"}

\* what it answers to the analysis prompt: APPROPRIATE: Yes or not, and the
\* outfit markers in the text
AnalysisTexts == [appropriate : BOOLEAN, markers : SUBSET OutfitNumbers]

\* a local name of generate_recommendations before its first assignment
Unbound == "unbound"

\* the names bound in generate_outfit_for_recommendation when line 255 is
\* evaluated: its parameters and locals, the enclosing function's parameters
\* and locals, and the module's globals
NamesAtLine255 ==
    {"rec", "idx", "outfit_desc", "self", "image", "occasion", "style",
     "user_attributes", "include_brands", "total_start", "attributes_prompt",
     "attributes_text", "user_attrs", "analysis_prompt", "response_text",
     "is_appropriate", "critique", "suggestions", "recommendations",
     "generated_avatars", "asyncio", "logger", "time"}

NoAnswer == <<>>

\* RecommendationResponse of lines 284-298
SuccessResponse(e) ==
    [success |-> TRUE, recommendations |-> e.recommendations,
     generated_avatars |-> e.generated_avatars,
     is_appropriate |-> e.is_appropriate]

\* RecommendationResponse of lines 306-320
ErrorResponse ==
    [success |-> FALSE, recommendations |-> <<>>, generated_avatars |-> <<>>,
     is_appropriate |-> FALSE]

\* lines 300-320: the exception is logged and the error response returned
Failed(e) == [e EXCEPT !.pc = "returned", !.response = ErrorResponse]

\* lines 280-298; the name generated_avatars is read at line 297
BuildResponse(e) ==
    IF e.generated_avatars = Unbound
    THEN Failed(e)
    ELSE [e EXCEPT !.pc = "returned", !.response = SuccessResponse(e)]

EngineInit ==
    /\ NoRun
    /\ fin = <<>>
    /\ fout = <<>>
    /\ NoCache
    /\ NoFrames
    /\ \E c \in BOOLEAN :
          engine = [pc |-> "attributes", configured |-> c, user_attrs |-> "",
                    is_appropriate |-> FALSE, recommendations |-> <<>>,
                    images |-> <<>>, tasks |-> <<>>, started |-> <<>>,
                    generated_avatars |-> Unbound, response |-> NoAnswer]

EngineUnchanged ==
    /\ UNCHANGED <<fin, fout, cacheVars, concVars>>
    /\ NoRunUnchanged

\* lines 78-101: the first analyze_image returns or raises
ExtractAttributes ==
    /\ engine.pc = "attributes"
    /\ \/ engine' = Failed(engine)
       \/ \E t \in AttributeTexts :
             engine' = [engine EXCEPT !.user_attrs = t, !.pc = "analysis"]
    /\ EngineUnchanged

\* lines 133-236: the second analyze_image returns or raises; the text is
\* parsed, and with recommendations the image fetches are gathered
AnalyzeOutfit ==
    /\ engine.pc = "analysis"
    /\ \/ engine' = Failed(engine)
       \/ \E t \in AnalysisTexts :
             LET recs == IF t.appropriate THEN <<>> ELSE Parsed(t.markers)
                 e == [engine EXCEPT !.is_appropriate = t.appropriate,
                                     !.recommendations = recs]
             IN  IF t.appropriate
                 THEN engine' = BuildResponse(e)
                 ELSE IF recs # <<>>
                      THEN engine' = [e EXCEPT !.pc = "images",
                                               !.images = [k \in DOMAIN recs |-> "pending"]]
                      ELSE engine' = BuildResponse([e EXCEPT !.generated_avatars = <<>>])
    /\ EngineUnchanged

\* lines 220-232: get_outfit_images of recommendation k returns or raises
fetch_images_for_recommendation(k) ==
    /\ engine.pc = "images"
    /\ engine.images[k] = "pending"
    /\ \E o \in {"fetched", "failed"} :
          engine' = [engine EXCEPT !.images[k] = o]
    /\ EngineUnchanged

\* lines 236-272, after the first gather: generated_avatars = [], and with
\* the diffusion service the tasks of the second gather are created
StartAvatars ==
    /\ engine.pc = "images"
    /\ \A k \in DOMAIN engine.images : engine.images[k] # "pending"
    /\ LET e == [engine EXCEPT !.generated_avatars = <<>>]
       IN  IF engine.configured /\ engine.recommendations # <<>>
           THEN engine' = [e EXCEPT !.pc = "avatars",
                                    !.tasks = [k \in DOMAIN e.recommendations |-> "pending"]]
           ELSE engine' = BuildResponse(e)
    /\ EngineUnchanged

\* generate_outfit_for_recommendation whose exception is not caught: it
\* leaves the gather and reaches the handler of line 300
generate_outfit_uncaught(k) ==
    /\ engine.pc = "avatars"
    /\ engine.tasks[k] = "pending"
    /\ \A j \in DOMAIN engine.tasks : j < k => engine.tasks[j] # "pending"
    /\ "user_physical_attributes" \notin NamesAtLine255
    /\ engine' = Failed([engine EXCEPT !.tasks[k] = "failed"])
    /\ EngineUnchanged

\* lines 243-269 for recommendations[k]: the tasks run in the order of the
\* gather, each to its end, since none reaches an await: the arguments of the
\* call of lines 252-256 are evaluated first, the name user_physical_attributes
\* is bound nowhere, and the NameError is caught at line 268
generate_outfit_for_recommendation(k) ==
    /\ engine.pc = "avatars"
    /\ engine.tasks[k] = "pending"
    /\ \A j \in DOMAIN engine.tasks : j < k => engine.tasks[j] # "pending"
    /\ "user_physical_attributes" \notin NamesAtLine255
    /\ engine' = [engine EXCEPT !.tasks[k] = "failed"]
    /\ EngineUnchanged

\* lines 272-298, after the second gather
FinishAvatars ==
    /\ engine.pc = "avatars"
    /\ \A k \in DOMAIN engine.tasks : engine.tasks[k] # "pending"
    /\ engine' = BuildResponse(engine)
    /\ EngineUnchanged

EngineNext ==
    \/ ExtractAttributes
    \/ AnalyzeOutfit
    \/ \E k \in OutfitNumbers :
          k \in DOMAIN engine.images /\ fetch_images_for_recommendation(k)
    \/ StartAvatars
    \/ \E k \in OutfitNumbers :
          k \in DOMAIN engine.tasks /\ generate_outfit_for_recommendation(k)
    \/ FinishAvatars

EngineSpec == EngineInit /\ [][EngineNext]_vars

\* C29: with the diffusion service configured and N >= 1 recommendations
\* parsed, generate_recommendations starts exactly one run of
\* generate_outfit_on_person per recommendation, with the body attributes
\* parsed from the vision response, and each run that succeeds contributes
\* exactly one entry with its recommendation's outfit_index to
\* generated_avatars.
C29_OneRunPerRecommendation ==
    (/\ engine.pc = "returned"
     /\ engine.configured
     /\ engine.tasks # <<>>) =>
        /\ Len(engine.started) = Len(engine.recommendations)
        /\ \A k \in DOMAIN engine.recommendations :
              /\ Cardinality({j \in DOMAIN engine.started :
                                engine.started[j].outfit_index = k}) = 1
              /\ \A j \in DOMAIN engine.started :
                    engine.started[j].body_attributes = engine.user_attrs
              /\ Cardinality({j \in DOMAIN engine.generated_avatars :
                                engine.generated_avatars[j].outfit_index = k})
                    = IF engine.tasks[k] = "appended" THEN 1 ELSE 0

====
